---- MODULE Spec2Model ----
(***************************************************************************)
(* Control and bookkeeping model of lobpcg                                  *)
(* (scipy/sparse/linalg/eigen/lobpcg/lobpcg.py).                            *)
(*                                                                         *)
(* Blocks are represented by their shapes.  Floating point quantities      *)
(* decided by the numerical data (the spectrum returned by eigh, the       *)
(* residual norms of the current Ritz pairs, the success of a Cholesky     *)
(* factorisation) are drawn from small integer sets.  Eigenvalues are      *)
(* integers 1..MaxEig.  Residual norms are counted in units of the        *)
(* tolerance the caller passes: a residual norm either equals the          *)
(* tolerance or is twice as large, and is compared with it as the code     *)
(* compares the floats.                                                    *)
(***************************************************************************)
EXTENDS Integers, Sequences, FiniteSets

VARIABLES
    pc,                    \* position of the call inside lobpcg
    xShape,                \* X.shape of the caller's array: <<n>> or <<n, k>>
    yGiven,                \* Y is not None
    yCols,                 \* Y.shape[1] when Y is given
    callerX,               \* content of the caller's X array
                           \* (see ApplyConstraints)
    callerX0,              \* the same content as it was when the call started
    callerY,               \* content of the caller's Y array
    largest,               \* argument largest
    maxiter,               \* argument maxiter
    retLambdaHistory,      \* argument retLambdaHistory, "unread" until the
                           \* call forms its result
    retResidualNormsHistory, \* argument retResidualNormsHistory, likewise
    n,                     \* local n     (0 until line 199)
    sizeX,                 \* local sizeX (0 until line 199)
    sizeY,                 \* local sizeY
    opsBuilt,              \* A, B, M have been constructed by _makeOperator
    residualTolerance,     \* local residualTolerance, the unit of the
                           \* residual norms
    maxIterations,         \* local maxIterations after line 228
    failureFlag,           \* local failureFlag
    spectrum,              \* eigh output held in _lambda before the selection
    lambda,                \* local _lambda after the selection
    resid,                 \* residual norms of the current (X, _lambda)
    activeMask,            \* local activeMask
    lambdaHistory,         \* local lambdaHistory
    residualNormsHistory,  \* local residualNormsHistory
    previousBlockSize,     \* local previousBlockSize
    identSize,             \* order of the matrix ident
    ident0Size,            \* order of the matrix ident0
    iterationNumber,       \* number of loop iterations started so far
    pStored,               \* blockVectorP/AP/BP are not None
    gramADim,              \* order of gramA at the last assembly (0: none yet)
    gramBDim,              \* order of gramB at the last assembly (0: none yet)
    denseRange,            \* eigvals range handed to the dense eigh, or << >>
    ret,                   \* names of the elements of the returned tuple
    error                  \* exception that ended the call, or "none"

vars == <<pc, xShape, yGiven, yCols, callerX, callerX0, callerY, largest,
          maxiter, retLambdaHistory, retResidualNormsHistory, n, sizeX, sizeY,
          opsBuilt, residualTolerance, maxIterations, failureFlag, spectrum,
          lambda, resid, activeMask, lambdaHistory, residualNormsHistory,
          previousBlockSize, identSize, ident0Size, iterationNumber, pStored,
          gramADim, gramBDim, denseRange, ret, error>>

(***************************************************************************)
(* Bounds of the model.                                                    *)
(***************************************************************************)
MaxN == 10          \* rows of X
MaxSizeX == 2       \* columns of X
MaxSizeY == 1       \* columns of Y
MaxIter == 6        \* argument maxiter
MaxWork == 30       \* n * maxiter, the rows-times-iterations budget
MaxEig == 2         \* eigenvalues are 1..MaxEig

(***************************************************************************)
(* Program constants.                                                      *)
(***************************************************************************)
DenseFactor == 5

Min(a, b) == IF a < b THEN a ELSE b

(***************************************************************************)
(* Helpers on sequences standing for numpy vectors (1-based here).         *)
(***************************************************************************)
Reverse(s) == [j \in 1..Len(s) |-> s[Len(s) + 1 - j]]

Take(s, k) == SubSeq(s, 1, Min(k, Len(s)))

Index(s, ii) == [j \in 1..Len(ii) |-> s[ii[j]]]

Count(mask) == Cardinality({i \in DOMAIN mask : mask[i]})

\* np.argsort: the indices of s in ascending order of value, equal values
\* in index order.
RECURSIVE ArgSortFrom(_, _)
ArgSortFrom(s, left) ==
    IF left = {} THEN << >>
    ELSE LET i == CHOOSE a \in left :
                    \A b \in left : s[a] < s[b] \/ (s[a] = s[b] /\ a <= b)
         IN <<i>> \o ArgSortFrom(s, left \ {i})

ArgSort(s) == ArgSortFrom(s, DOMAIN s)

\* The ascending sequences of len eigenvalues, none above hi.
RECURSIVE AscendingUpTo(_, _)
AscendingUpTo(len, hi) ==
    IF len = 0 THEN {<< >>}
    ELSE UNION {{Append(t, v) : t \in AscendingUpTo(len - 1, v)} : v \in 1..hi}

\* eigh returns the eigenvalues in ascending order.
Spectra(len) == AscendingUpTo(len, MaxEig)

\* Residual norms of a block of k columns: each at the tolerance, which is
\* not above it (line 323), or above it.
Resids(k, tol) == [1..k -> {tol, tol + 1}]

(***************************************************************************)
(* Pieces of lobpcg.                                                       *)
(***************************************************************************)
\* lines 282-284 and 412-414:
\*     ii = np.argsort(_lambda)[:sizeX]; if largest: ii = ii[::-1]
SelectIndices(lam, k, lrg) ==
    LET ii == Take(ArgSort(lam), k)
    IN IF lrg THEN Reverse(ii) ELSE ii

\* lines 285 and 418: _lambda = _lambda[ii]
SelectLambda(lam, k, lrg) == Index(lam, SelectIndices(lam, k, lrg))

\* Variant of UseDense: the comparison is not strict.
UseDenseInclusive(nn, sy, sx) == (nn - sy) <= (DenseFactor * sx)

\* line 207: (n - sizeY) < (5 * sizeX)
UseDense(nn, sy, sx) == (nn - sy) < (DenseFactor * sx)

\* lines 216-219: closed range of indices handed to the dense eigh
DenseEigvals(nn, sx, lrg) ==
    IF lrg THEN <<nn - sx, nn - 1>> ELSE <<0, sx - 1>>

\* Variant of LoopBound: maxIterations is not capped at n.
LoopBoundNoCap(nn, mi) == mi

\* line 228: maxIterations = min(n, maxIterations)
LoopBound(nn, mi) == Min(nn, mi)

\* lines 93-97: V -= Y * cho_solve(factYBY, BY^T V).  A block content is the
\* pair <<component in span(Y), component in its B-orthogonal complement>>;
\* Y * cho_solve(...) is the first component.
ApplyConstraints(v) == <<v[1] - v[1], v[2]>>

\* line 323: ii = np.where(residualNorms > residualTolerance, True, False)
AboveTolerance(norms, tol) == [i \in DOMAIN norms |-> norms[i] > tol]

\* Variant of UpdateMask: the mask is recomputed from the residual norms.
UpdateMaskNoAnd(mask, ii) == [i \in DOMAIN mask |-> ii[i]]

\* line 324: activeMask = activeMask & ii
UpdateMask(mask, ii) == [i \in DOMAIN mask |-> mask[i] /\ ii[i]]

\* Variant of NewIdentSize: ident is never re-created.
NewIdentSizeStale(cur, prev, idn) == idn

\* lines 329-331: ident is re-created when the active block size changed
NewIdentSize(cur, prev, idn) == IF cur # prev THEN cur ELSE idn

\* lines 390-392 and 398-399: order of gramA, from its first block row
\* [diag(_lambda), xaw] or [diag(_lambda), xaw, xap]
GramAOrder(sx, cur, it) == IF it > 0 THEN sx + cur + cur ELSE sx + cur

\* lines 394-396 and 400-401: order of gramB, from its diagonal blocks
\* [ident0, ident] or [ident0, ident, ident]
GramBOrder(id0, idn, it) == IF it > 0 THEN id0 + idn + idn ELSE id0 + idn

\* line 321: residualNormsHistory.append(residualNorms)
RecordResidualNorms(hist, norms) == Append(hist, norms)

\* Variant of RecordLambda: the last entry is overwritten.
RecordLambdaOverwrite(hist, lam) == [hist EXCEPT ![Len(hist)] = lam]

\* line 421: lambdaHistory.append(_lambda)
RecordLambda(hist, lam) == Append(hist, lam)

\* lines 480-489: the returned tuple
ReturnTuple(rl, rr) ==
    IF rl
    THEN IF rr
         THEN <<"lambda", "V", "lambdaHistory", "residualNormsHistory">>
         ELSE <<"lambda", "V", "lambdaHistory">>
    ELSE IF rr
         THEN <<"lambda", "V", "residualNormsHistory">>
         ELSE <<"lambda", "V">>

\* line 223: eigh returns (w, v)
DenseReturnTuple == <<"lambda", "V">>

(***************************************************************************)
(* The call.                                                               *)
(***************************************************************************)
XShapes ==
    {<<nn>> : nn \in 0..MaxN}
        \cup {<<nn, k>> : nn \in 0..MaxN, k \in 0..MaxSizeX}

\* Values of the locals before the first assignment to them.
Locals ==
    /\ sizeY = 0
    /\ opsBuilt = FALSE
    /\ spectrum = << >>
    /\ lambda = << >>
    /\ resid = << >>
    /\ activeMask = << >>
    /\ lambdaHistory = << >>
    /\ residualNormsHistory = << >>
    /\ previousBlockSize = 0
    /\ identSize = 0
    /\ ident0Size = 0
    /\ iterationNumber = 0
    /\ pStored = FALSE
    /\ gramADim = 0
    /\ gramBDim = 0
    /\ denseRange = << >>
    /\ ret = << >>
    /\ error = "none"

\* The state on entry of lobpcg (lines 121-125 and 183-188).
Init ==
    /\ pc = "validate"
    /\ xShape \in XShapes
    /\ yGiven \in BOOLEAN
    /\ yCols \in (IF yGiven THEN 1..MaxSizeY ELSE {0})
    /\ callerX = (IF yGiven THEN <<1, 1>> ELSE <<0, 1>>)
    /\ callerX0 = callerX
    /\ callerY = <<"Y", yCols>>
    /\ largest \in BOOLEAN
    /\ maxiter \in {mi \in 0..MaxIter : xShape[1] * mi <= MaxWork}
    /\ retLambdaHistory = "unread"
    /\ retResidualNormsHistory = "unread"
    /\ residualTolerance = 1
    /\ maxIterations = maxiter
    /\ failureFlag = TRUE
    /\ n = 0
    /\ sizeX = 0
    /\ Locals

Raise(e) ==
    /\ pc' = "raised"
    /\ error' = e

\* lines 190-201
Validate ==
    /\ pc = "validate"
    /\ sizeY' = IF yGiven THEN yCols ELSE 0
    /\ IF Len(xShape) # 2
       THEN /\ Raise("InvalidInput")
            /\ UNCHANGED <<n, sizeX>>
       ELSE /\ n' = xShape[1]
            /\ sizeX' = xShape[2]
            /\ IF xShape[2] > xShape[1]
               THEN Raise("InvalidInput")
               ELSE /\ pc' = "operators"
                    /\ error' = error
    /\ UNCHANGED <<xShape, yGiven, yCols, callerX, callerX0, callerY, largest,
                   maxiter, retLambdaHistory, retResidualNormsHistory,
                   opsBuilt, residualTolerance, maxIterations, failureFlag,
                   spectrum, lambda, resid, activeMask, lambdaHistory,
                   residualNormsHistory, previousBlockSize, identSize,
                   ident0Size, iterationNumber, pStored, gramADim, gramBDim,
                   denseRange, ret>>

\* lines 203-205 (_makeOperator, lines 63-90, three times); shapesOk says
\* whether the shapes of A, B and M are all (n, n).
MakeOperators ==
    /\ pc = "operators"
    /\ opsBuilt' = TRUE
    /\ \E shapesOk \in BOOLEAN :
          IF shapesOk
          THEN /\ pc' = "path"
               /\ error' = error
          ELSE Raise("ShapeMismatch")
    /\ UNCHANGED <<xShape, yGiven, yCols, callerX, callerX0, callerY, largest,
                   maxiter, retLambdaHistory, retResidualNormsHistory, n,
                   sizeX, sizeY, residualTolerance, maxIterations,
                   failureFlag, spectrum, lambda, resid, activeMask,
                   lambdaHistory, residualNormsHistory, previousBlockSize,
                   identSize, ident0Size, iterationNumber, pStored, gramADim,
                   gramBDim, denseRange, ret>>

\* lines 207-228; rl and rr are the arguments retLambdaHistory and
\* retResidualNormsHistory of a call that returns here.  The caller passes
\* tol, so the default of line 226 is not taken.
ChoosePath ==
    /\ pc = "path"
    /\ IF UseDense(n, sizeY, sizeX)
       THEN /\ IF yGiven
               THEN /\ Raise("NotImplemented")
                    /\ UNCHANGED <<denseRange, ret, retLambdaHistory,
                                   retResidualNormsHistory>>
               ELSE /\ denseRange' = DenseEigvals(n, sizeX, largest)
                    /\ \E rl \in BOOLEAN, rr \in BOOLEAN :
                          /\ retLambdaHistory' = rl
                          /\ retResidualNormsHistory' = rr
                    /\ ret' = DenseReturnTuple
                    /\ pc' = "returned"
                    /\ error' = error
            /\ maxIterations' = maxIterations
       ELSE /\ maxIterations' = LoopBound(n, maxIterations)
            /\ pc' = "constraints"
            /\ UNCHANGED <<denseRange, ret, error, retLambdaHistory,
                           retResidualNormsHistory>>
    /\ UNCHANGED <<xShape, yGiven, yCols, callerX, callerX0, callerY, largest,
                   maxiter, n,
                   sizeX, sizeY, opsBuilt, residualTolerance, failureFlag,
                   spectrum, lambda, resid, activeMask, lambdaHistory,
                   residualNormsHistory, previousBlockSize, identSize,
                   ident0Size, iterationNumber, pStored, gramADim, gramBDim>>

\* lines 253-268; blockVectorX is the caller's X (line 185), which
\* _applyConstraints changes in place; factorOk says whether cho_factor
\* succeeds.
Constraints ==
    /\ pc = "constraints"
    /\ IF yGiven
       THEN \E factorOk \in BOOLEAN :
               IF factorOk
               THEN /\ callerX' = ApplyConstraints(callerX)
                    /\ pc' = "ritz"
                    /\ error' = error
               ELSE /\ Raise("LinearlyDependentConstraints")
                    /\ callerX' = callerX
       ELSE /\ pc' = "ritz"
            /\ UNCHANGED <<callerX, error>>
    /\ UNCHANGED <<xShape, yGiven, yCols, callerX0, callerY, largest,
                   maxiter, retLambdaHistory, retResidualNormsHistory, n,
                   sizeX, sizeY, opsBuilt, residualTolerance, maxIterations,
                   failureFlag, spectrum, lambda, resid, activeMask,
                   lambdaHistory, residualNormsHistory, previousBlockSize,
                   identSize, ident0Size, iterationNumber, pStored, gramADim,
                   gramBDim, denseRange, ret>>

\* lines 272-309; cholOk says whether the Cholesky factorisation inside
\* _b_orthonormalize (lines 100-118) succeeds, s is the output of eigh and
\* r the residual norms of the rotated X.
InitRitz ==
    /\ pc = "ritz"
    /\ \E cholOk \in BOOLEAN :
          IF cholOk
          THEN \E s \in Spectra(sizeX),
                  r \in Resids(sizeX, residualTolerance) :
                  /\ lambda' = SelectLambda(s, sizeX, largest)
                  /\ resid' = r
                  /\ activeMask' = [i \in 1..sizeX |-> TRUE]
                  /\ lambdaHistory' = <<lambda'>>
                  /\ residualNormsHistory' = << >>
                  /\ previousBlockSize' = sizeX
                  /\ identSize' = sizeX
                  /\ ident0Size' = sizeX
                  /\ pStored' = FALSE
                  /\ pc' = "loop"
                  /\ error' = error
          ELSE /\ Raise("RankDeficiency")
               /\ UNCHANGED <<lambda, resid, activeMask, lambdaHistory,
                              residualNormsHistory, previousBlockSize,
                              identSize, ident0Size, pStored>>
    /\ UNCHANGED <<xShape, yGiven, yCols, callerX, callerX0, callerY, largest,
                   maxiter, retLambdaHistory, retResidualNormsHistory, n,
                   sizeX, sizeY, opsBuilt, residualTolerance, maxIterations,
                   failureFlag, spectrum, iterationNumber, gramADim, gramBDim,
                   denseRange, ret>>

\* Exceptions of the numerical steps of one iteration: "RankDeficiency" of
\* the Cholesky factorisations of lines 364 and 370 (before the Gram
\* assembly), "LinAlgError" of the symmetry assertions of lines 403-404 and
\* of eigh at line 411 (after it).
Faults == {"RankDeficiency", "LinAlgError"}

\* lines 311-468, one pass through the loop body; fault is the exception of
\* a numerical step, s the output of eigh and r the residual norms of the
\* updated X.
Iterate ==
    /\ pc = "loop"
    /\ iterationNumber < maxIterations
    /\ LET residualNorms == resid
           ii == AboveTolerance(residualNorms, residualTolerance)
           newMask == UpdateMask(activeMask, ii)
           currentBlockSize == Count(newMask)
           newIdent == NewIdentSize(currentBlockSize, previousBlockSize,
                                    identSize)
           orderA == GramAOrder(sizeX, currentBlockSize, iterationNumber)
           orderB == GramBOrder(ident0Size, newIdent, iterationNumber)
       IN /\ residualNormsHistory' =
                 RecordResidualNorms(residualNormsHistory, residualNorms)
          /\ activeMask' = newMask
          /\ previousBlockSize' = currentBlockSize
          /\ identSize' = newIdent
          /\ iterationNumber' = iterationNumber + 1
          /\ IF currentBlockSize = 0
             THEN \* lines 333-335
                  /\ failureFlag' = FALSE
                  /\ pc' = "final"
                  /\ UNCHANGED <<lambda, resid, lambdaHistory, pStored,
                                 gramADim, gramBDim, error>>
             ELSE IF iterationNumber > 0 /\ ~pStored
             THEN \* line 347 would index None
                  /\ Raise("TypeError")
                  /\ UNCHANGED <<failureFlag, lambda, resid, lambdaHistory,
                                 pStored, gramADim, gramBDim>>
             ELSE \E fault \in Faults \cup {"none"} :
                  IF fault = "RankDeficiency"
                  THEN /\ Raise(fault)
                       /\ UNCHANGED <<failureFlag, lambda, resid,
                                      lambdaHistory, pStored, gramADim,
                                      gramBDim>>
                  ELSE IF newIdent # currentBlockSize
                  THEN \* np.bmat rejects blocks of different heights
                       /\ Raise("ValueError")
                       /\ UNCHANGED <<failureFlag, lambda, resid,
                                      lambdaHistory, pStored, gramADim,
                                      gramBDim>>
                  ELSE /\ gramADim' = orderA
                       /\ gramBDim' = orderB
                       /\ IF fault # "none"
                          THEN /\ Raise(fault)
                               /\ UNCHANGED <<failureFlag, lambda, resid,
                                              lambdaHistory, pStored>>
                          ELSE \E s \in Spectra(orderA),
                                  r \in Resids(sizeX, residualTolerance) :
                                  /\ lambda' = SelectLambda(s, sizeX, largest)
                                  /\ lambdaHistory' =
                                         RecordLambda(lambdaHistory, lambda')
                                  /\ resid' = r
                                  /\ pStored' = TRUE
                                  /\ pc' = "loop"
                                  /\ UNCHANGED <<failureFlag, error>>
    /\ UNCHANGED <<xShape, yGiven, yCols, callerX, callerX0, callerY, largest,
                   maxiter, retLambdaHistory, retResidualNormsHistory, n,
                   sizeX, sizeY, opsBuilt, residualTolerance, maxIterations,
                   spectrum, ident0Size, denseRange, ret>>

\* line 311: xrange(maxIterations) is exhausted
LoopExit ==
    /\ pc = "loop"
    /\ iterationNumber >= maxIterations
    /\ pc' = "final"
    /\ UNCHANGED <<xShape, yGiven, yCols, callerX, callerX0, callerY, largest,
                   maxiter, retLambdaHistory, retResidualNormsHistory, n,
                   sizeX, sizeY, opsBuilt, residualTolerance, maxIterations,
                   failureFlag, spectrum, lambda, resid, activeMask,
                   lambdaHistory, residualNormsHistory, previousBlockSize,
                   identSize, ident0Size, iterationNumber, pStored, gramADim,
                   gramBDim, denseRange, ret, error>>

\* lines 470-489; the final residual norms are those of the current
\* (X, _lambda), that is resid; rl and rr are the arguments retLambdaHistory
\* and retResidualNormsHistory of the call.
Finalize ==
    /\ pc = "final"
    /\ \E rl \in BOOLEAN, rr \in BOOLEAN :
          /\ retLambdaHistory' = rl
          /\ retResidualNormsHistory' = rr
          /\ ret' = ReturnTuple(rl, rr)
    /\ pc' = "returned"
    /\ UNCHANGED <<xShape, yGiven, yCols, callerX, callerX0, callerY, largest,
                   maxiter, n,
                   sizeX, sizeY, opsBuilt, residualTolerance, maxIterations,
                   failureFlag, spectrum, lambda, resid, activeMask,
                   lambdaHistory, residualNormsHistory, previousBlockSize,
                   identSize, ident0Size, iterationNumber, pStored, gramADim,
                   gramBDim, denseRange, error>>

Next ==
    \/ Validate
    \/ MakeOperators
    \/ ChoosePath
    \/ Constraints
    \/ InitRitz
    \/ Iterate
    \/ LoopExit
    \/ Finalize

Spec == Init /\ [][Next]_vars

(***************************************************************************)
(* The selection of the Ritz values on its own: eigh (lines 281 and 411)   *)
(* and the selection that follows it (lines 282-285 and 412-418) as two    *)
(* steps, for a block of sizeX columns and every order of the projected    *)
(* problem.                                                                *)
(***************************************************************************)
GramOrders(sx) ==
    {sx} \cup {GramAOrder(sx, cur, it) : cur \in 1..sx, it \in 0..1}

RitzInit ==
    /\ pc = "eigh"
    /\ xShape \in {<<DenseFactor * k, k>> : k \in 1..MaxSizeX}
    /\ n = xShape[1]
    /\ sizeX = xShape[2]
    /\ yGiven = FALSE
    /\ yCols = 0
    /\ callerX = <<0, 1>>
    /\ callerX0 = callerX
    /\ callerY = <<"Y", 0>>
    /\ largest \in BOOLEAN
    /\ maxiter = 0
    /\ retLambdaHistory = "unread"
    /\ retResidualNormsHistory = "unread"
    /\ residualTolerance = 1
    /\ maxIterations = 0
    /\ failureFlag = TRUE
    /\ Locals

RitzFrame ==
    UNCHANGED <<xShape, yGiven, yCols, callerX, callerX0, callerY, largest,
                maxiter, retLambdaHistory, retResidualNormsHistory, n, sizeX,
                sizeY, opsBuilt, residualTolerance, maxIterations,
                failureFlag, resid, activeMask, lambdaHistory,
                residualNormsHistory, previousBlockSize, identSize,
                ident0Size, iterationNumber, pStored, gramADim, gramBDim,
                denseRange, ret, error>>

\* lines 281 and 411
RitzEigh ==
    /\ pc = "eigh"
    /\ \E order \in GramOrders(sizeX) : spectrum' \in Spectra(order)
    /\ pc' = "select"
    /\ lambda' = lambda
    /\ RitzFrame

\* lines 282-285 and 412-418
RitzSelect ==
    /\ pc = "select"
    /\ lambda' = SelectLambda(spectrum, sizeX, largest)
    /\ pc' = "selected"
    /\ spectrum' = spectrum
    /\ RitzFrame

RitzNext ==
    \/ RitzEigh
    \/ RitzSelect

RitzSpec == RitzInit /\ [][RitzNext]_vars

(***************************************************************************)
(* Vocabulary of the properties.                                           *)
(***************************************************************************)
Terminal == pc \in {"returned", "raised"}

\* X is an n-by-k block with 1 <= k <= n.
ValidX == Len(xShape) = 2 /\ xShape[2] >= 1 /\ xShape[2] <= xShape[1]

\* The dense/iterative decision of line 207 has been taken.
PastPath ==
    /\ pc \notin {"validate", "operators", "path", "eigh", "select", "selected"}
    /\ error \notin {"InvalidInput", "ShapeMismatch"}

TookDense == PastPath /\ (error = "NotImplemented" \/ denseRange # << >>)

TookIterative == PastPath /\ ~TookDense

AllFalse(mask) == \A i \in DOMAIN mask : ~mask[i]

IsPrefix(s, t) == Len(s) <= Len(t) /\ SubSeq(t, 1, Len(s)) = s

Last(s) == s[Len(s)]

\* The eigenvalues of a spectrum in ascending order.
Ascending(s) == Index(s, ArgSort(s))

(***************************************************************************)
(* C1: after every selection, on a projected spectrum of sizeX to 3*sizeX  *)
(* eigenvalues, the eigenvalues kept are the sizeX largest in descending   *)
(* order when largest is true and the sizeX smallest in ascending order    *)
(* when it is false.                                                       *)
(***************************************************************************)
C1_SelectionHonoursLargest ==
    pc = "selected" =>
        lambda = IF largest
                 THEN Take(Reverse(Ascending(spectrum)), sizeX)
                 ELSE Take(Ascending(spectrum), sizeX)

(***************************************************************************)
(* C2: when the iterative solve ends Converged (the mask became all-false  *)
(* and the loop broke), the residual norm of every returned column is at   *)
(* most the tolerance.                                                     *)
(***************************************************************************)
C2_ResidualLaw ==
    (TookIterative /\ pc \in {"final", "returned"} /\ ~failureFlag) =>
        \A i \in 1..sizeX : resid[i] <= residualTolerance

(***************************************************************************)
(* C3: the active mask starts all-true; in every step a false bit stays    *)
(* false, the mask changes only to mask AND (residualNorm > tolerance),    *)
(* and the number of active columns does not increase.                     *)
(***************************************************************************)
C3_MaskStep ==
    /\ \A i \in DOMAIN activeMask : ~activeMask[i] => ~activeMask'[i]
    /\ pc = "loop" =>
          /\ Count(activeMask') <= Count(activeMask)
          /\ \/ activeMask' = activeMask
             \/ activeMask' = [i \in 1..sizeX |->
                                 activeMask[i] /\ resid[i] > residualTolerance]

C3_DeflationMonotone ==
    /\ [](pc = "loop" /\ iterationNumber = 0 =>
             /\ Len(activeMask) = sizeX
             /\ \A i \in 1..sizeX : activeMask[i])
    /\ [][C3_MaskStep]_vars

\* A column deflated at an earlier mask check whose residual norm was above
\* the tolerance at the last mask check, and which is still deflated.
C3_Witness ==
    /\ pc \in {"loop", "final"}
    /\ Len(residualNormsHistory) >= 2
    /\ \E i \in 1..sizeX :
          /\ residualNormsHistory[Len(residualNormsHistory) - 1][i]
                 <= residualTolerance
          /\ Last(residualNormsHistory)[i] > residualTolerance
          /\ ~activeMask[i]

(***************************************************************************)
(* C4: for a valid X the dense path is taken exactly when                  *)
(* n - sizeY < 5*sizeX; on it the loop is never entered, the call fails    *)
(* with NotImplemented if Y was given and otherwise returns the dense      *)
(* solver's eigenpairs for the ranks [n-sizeX, n-1] (largest) or           *)
(* [0, sizeX-1] (smallest); otherwise the dense solver is not used and     *)
(* NotImplemented is not raised.                                           *)
(***************************************************************************)
C4_PathSelection ==
    (ValidX /\ PastPath) =>
        /\ TookDense <=> (n - sizeY) < 5 * sizeX
        /\ TookDense =>
              /\ Terminal
              /\ iterationNumber = 0
              /\ lambdaHistory = << >>
              /\ residualNormsHistory = << >>
              /\ activeMask = << >>
              /\ IF yGiven
                 THEN pc = "raised" /\ error = "NotImplemented"
                                    /\ denseRange = << >> /\ ret = << >>
                 ELSE /\ pc = "returned"
                      /\ error = "none"
                      /\ ret = <<"lambda", "V">>
                      /\ denseRange = IF largest
                                      THEN <<n - sizeX, n - 1>>
                                      ELSE <<0, sizeX - 1>>
        /\ ~TookDense => (denseRange = << >> /\ error # "NotImplemented")

\* A dense return for the largest eigenvalues, one row short of iterating.
C4_Witness ==
    /\ ValidX
    /\ pc = "returned"
    /\ largest
    /\ (n - sizeY) = 5 * sizeX - 1
    /\ denseRange = <<n - sizeX, n - 1>>

(***************************************************************************)
(* C5: a call whose X is not an n-by-k block with 1 <= k <= n fails with   *)
(* InvalidInput at once: no operator is constructed, the dense/iterative   *)
(* decision is not reached and nothing is returned.                        *)
(***************************************************************************)
C5_InvalidXRejected ==
    ~ValidX =>
        \/ pc = "validate"
        \/ /\ pc = "raised"
           /\ error = "InvalidInput"
           /\ ~opsBuilt
           /\ ret = << >>

(***************************************************************************)
(* C6: every call that returns, on the dense or the iterative path,        *)
(* returns (lambda, V), then the lambda history iff retLambdaHistory, then *)
(* the residual norms history iff retResidualNormsHistory.                 *)
(***************************************************************************)
C6_ReturnFormat ==
    pc = "returned" =>
        ret = <<"lambda", "V">>
                \o (IF retLambdaHistory THEN <<"lambdaHistory">> ELSE << >>)
                \o (IF retResidualNormsHistory
                    THEN <<"residualNormsHistory">> ELSE << >>)

(***************************************************************************)
(* C7: on the iterative path the loop starts at most min(n, maxiter)       *)
(* iterations and the call ends, in exactly one of Converged (mask         *)
(* all-false at the mask check of an iteration), MaxIterReached (bound     *)
(* exhausted, a column never deflated) or a propagated failure; a call     *)
(* ending MaxIterReached returns eigenvalues and eigenvectors like one     *)
(* ending Converged.  Ending is stated as: a call that has not ended can   *)
(* take a step, and every step lowers C7_Rank.                             *)
(***************************************************************************)
C7_Converged ==
    /\ pc = "returned"
    /\ ~failureFlag
    /\ iterationNumber >= 1
    /\ AllFalse(activeMask)

C7_MaxIterReached ==
    /\ pc = "returned"
    /\ failureFlag
    /\ iterationNumber = Min(n, maxiter)
    /\ sizeX >= 1 => \E i \in 1..sizeX : activeMask[i]

C7_HardFailure ==
    /\ pc = "raised"
    /\ error \in {"LinearlyDependentConstraints", "RankDeficiency",
                  "LinAlgError"}

C7_Rank ==
    CASE pc = "validate" -> MaxIter + 7
      [] pc = "operators" -> MaxIter + 6
      [] pc = "path" -> MaxIter + 5
      [] pc = "constraints" -> MaxIter + 4
      [] pc = "ritz" -> MaxIter + 3
      [] pc = "loop" -> 2 + (maxIterations - iterationNumber)
      [] pc = "final" -> 1
      [] OTHER -> 0

C7_State ==
    /\ ~Terminal => ENABLED Next
    /\ C7_Rank >= 0
    /\ TookIterative =>
          /\ iterationNumber <= Min(n, maxiter)
          /\ Terminal =>
                /\ C7_Converged \/ C7_MaxIterReached \/ C7_HardFailure
                /\ ~(C7_Converged /\ C7_MaxIterReached)
                /\ ~(C7_Converged /\ C7_HardFailure)
                /\ ~(C7_MaxIterReached /\ C7_HardFailure)
          /\ pc = "returned" =>
                /\ error = "none"
                /\ Len(lambda) = sizeX
                /\ SubSeq(ret, 1, 2) = <<"lambda", "V">>

C7_Step ==
    /\ C7_Rank' < C7_Rank
    /\ (pc = "final" /\ TookIterative) => (pc' = "returned" /\ error' = "none")

C7_BoundedTermination == []C7_State /\ [][C7_Step]_vars

\* A call that ended MaxIterReached with the bound n, smaller than maxiter.
C7_Witness ==
    /\ ValidX
    /\ pc = "returned"
    /\ failureFlag
    /\ n < maxiter
    /\ iterationNumber = n
    /\ \E i \in 1..sizeX : activeMask[i]

(***************************************************************************)
(* C8: at every Gram assembly ident has the order of the current active    *)
(* count c and is re-created exactly when c differs from the previous      *)
(* active count, ident0 keeps the order sizeX, gramA and gramB have the    *)
(* same order, sizeX + c in iteration 0 and sizeX + 2c afterwards, at most *)
(* 3*sizeX; the P blocks are read only in iterations > 0, after the        *)
(* previous iteration stored them.                                         *)
(***************************************************************************)
\* The last step assembled the Gram matrices for the current mask.
C8_Assembled ==
    /\ gramADim > 0
    /\ pc = "loop" \/ (pc = "raised" /\ error = "LinAlgError")

C8_State ==
    /\ error \notin {"TypeError", "ValueError"}
    /\ (pc = "loop" /\ iterationNumber > 0) => pStored
    /\ (pc = "loop" /\ iterationNumber = 0) => ~pStored
    /\ pc \in {"loop", "final"} => ident0Size = sizeX
    /\ C8_Assembled =>
          LET c == Count(activeMask)
          IN /\ identSize = c
             /\ ident0Size = sizeX
             /\ gramADim = gramBDim
             /\ gramADim = IF iterationNumber = 1
                           THEN sizeX + c
                           ELSE sizeX + 2 * c
             /\ gramADim <= 3 * sizeX

C8_Step ==
    (pc = "loop" /\ iterationNumber' # iterationNumber) =>
        /\ identSize' = Count(activeMask')
        /\ (identSize' # identSize) <=> (Count(activeMask') # previousBlockSize)
        /\ ident0Size' = ident0Size

C8_GramSizing == []C8_State /\ [][C8_Step]_vars

\* An assembly with the P blocks after a deflation left one active column
\* of two.
C8_Witness ==
    /\ pc = "loop"
    /\ iterationNumber >= 2
    /\ sizeX = 2
    /\ Count(activeMask) = 1
    /\ identSize = 1
    /\ gramADim = 4

(***************************************************************************)
(* C9: after any call the caller's X and Y hold the values they had        *)
(* before the call.                                                        *)
(***************************************************************************)
C9_CallerBlocksUnchanged ==
    /\ callerX = callerX0
    /\ callerY = <<"Y", yCols>>

(***************************************************************************)
(* C10: both histories are append-only; the lambda history starts with     *)
(* the initial Ritz values and gains one entry per completed Rayleigh-Ritz *)
(* step, the residual history one entry per started iteration, which is    *)
(* the residual of the eigenpairs before that iteration's update.  On      *)
(* return after t started iterations: Converged gives                      *)
(* len(residualNormsHistory) = len(lambdaHistory) = t with the last        *)
(* residual entry that of the returned eigenpairs; MaxIterReached gives t  *)
(* and t + 1; the last lambda history entry is the returned eigenvalues.   *)
(***************************************************************************)
C10_State ==
    (TookIterative /\ pc \in {"loop", "final", "returned"}) =>
        /\ Len(residualNormsHistory) = iterationNumber
        /\ Last(lambdaHistory) = lambda
        /\ (pc = "loop" /\ iterationNumber = 0) => lambdaHistory = <<lambda>>
        /\ pc = "loop" => Len(lambdaHistory) = iterationNumber + 1
        /\ pc \in {"final", "returned"} =>
              IF ~failureFlag
              THEN /\ Len(lambdaHistory) = iterationNumber
                   /\ Last(residualNormsHistory) = resid
              ELSE Len(lambdaHistory) = iterationNumber + 1

C10_Step ==
    /\ IsPrefix(lambdaHistory, lambdaHistory')
    /\ IsPrefix(residualNormsHistory, residualNormsHistory')
    /\ pc = "loop" =>
          /\ (iterationNumber' # iterationNumber) <=>
                 (residualNormsHistory' = Append(residualNormsHistory, resid))
          /\ (iterationNumber' = iterationNumber) =>
                 residualNormsHistory' = residualNormsHistory
          /\ IF pc' = "loop"
             THEN lambdaHistory' = Append(lambdaHistory, lambda')
             ELSE lambdaHistory' = lambdaHistory /\ lambda' = lambda

C10_HistoryBookkeeping == []C10_State /\ [][C10_Step]_vars

\* A return after MaxIterReached whose last residual entry is not the
\* residual of the returned eigenpairs.
C10_Witness ==
    /\ pc = "returned"
    /\ TookIterative
    /\ failureFlag
    /\ iterationNumber >= 2
    /\ Len(lambdaHistory) = iterationNumber + 1
    /\ Last(residualNormsHistory) # resid
    /\ lambdaHistory[Len(lambdaHistory) - 1] # lambda

====
